---- MODULE Spec2Model ----
(***************************************************************************)
(* discord-rpc-bridge: the detection-and-relay loop of src/main.go.        *)
(*                                                                         *)
(* Strings are sequences of one-character strings, so that lower-casing,   *)
(* stripping, substring search and splitting are computed as the code      *)
(* computes them.  The byte 0 of /proc/<pid>/cmdline is the element NUL.   *)
(***************************************************************************)
EXTENDS Naturals, Integers, Sequences, FiniteSets, TLC

\* ------------------------------------------------------------ strings

Upper == <<"A","B","C","D","E","F","G","H","I","J","K","L","M",
           "N","O","P","Q","R","S","T","U","V","W","X","Y","Z">>
Lower == <<"a","b","c","d","e","f","g","h","i","j","k","l","m",
           "n","o","p","q","r","s","t","u","v","w","x","y","z">>
Digits == <<"0","1","2","3","4","5","6","7","8","9">>

Range(s) == {s[i] : i \in DOMAIN s}

\* Characters outside ASCII, by name: the Kelvin sign U+212A, whose lower case
\* is the ASCII letter k, and the letter E with acute accent in both cases.
KelvinSign == "KELVIN SIGN"
UpperEAcute == "CAPITAL E ACUTE"
LowerEAcute == "SMALL E ACUTE"

\* strings.ToLower, one character
toLowerChar(c) ==
    IF \E i \in DOMAIN Upper : Upper[i] = c
    THEN Lower[CHOOSE i \in DOMAIN Upper : Upper[i] = c]
    ELSE IF c = KelvinSign THEN "k"
    ELSE IF c = UpperEAcute THEN LowerEAcute
    ELSE c

\* strings.ToLower
ToLower(s) == [i \in DOMAIN s |-> toLowerChar(s[i])]

\* the characters the pattern [^a-z0-9] does not match
KeptChars == Range(Lower) \cup Range(Digits)

\* regexp.ReplaceAllString(s, "") for the pattern [^a-z0-9]
RECURSIVE StripNonAlnum(_)
StripNonAlnum(s) ==
    IF s = <<>> THEN <<>>
    ELSE IF Head(s) \in KeptChars
         THEN <<Head(s)>> \o StripNonAlnum(Tail(s))
         ELSE StripNonAlnum(Tail(s))

\* the name is lower-cased and nothing is stripped
normalizeGameNameLowerOnly(input) == ToLower(input)

\* main.go normalizeGameName
normalizeGameName(input) == StripNonAlnum(ToLower(input))

\* s[from:] of Go, from counted from 0
SliceFrom(s, from) == SubSeq(s, from + 1, Len(s))

HasPrefix(s, p) == Len(s) >= Len(p) /\ SubSeq(s, 1, Len(p)) = p

\* strings.Index: the 0-based offset of the first occurrence, -1 if none
Index(s, sub) ==
    LET hits == {i \in 0..(Len(s) - Len(sub)) : SubSeq(s, i + 1, i + Len(sub)) = sub}
    IN IF hits = {} THEN -1 ELSE CHOOSE i \in hits : \A j \in hits : i <= j

\* strings.TrimPrefix
TrimPrefix(s, p) == IF HasPrefix(s, p) THEN SliceFrom(s, Len(p)) ELSE s

\* strings.SplitN(s, sep, 2)[0] for a one-character separator
FirstPart(s, sep) ==
    LET i == Index(s, sep) IN IF i = -1 THEN s ELSE SubSeq(s, 1, i)

Separator == <<"/">>
SteamKey == <<"s","t","e","a","m","a","p","p","s","/","c","o","m","m","o","n">>

\* main.go extractSteamGameName
extractSteamGameName(fullPath) ==
    LET idx == Index(fullPath, SteamKey) IN
    IF idx = -1 THEN <<>>
    ELSE FirstPart(TrimPrefix(SliceFrom(fullPath, idx + Len(SteamKey)), Separator),
                   Separator)

\* ------------------------------------------------------------ catalog

Balatro == <<"B","a","l","a","t","r","o">>
RimWorld == <<"R","i","m","W","o","r","l","d">>
Foo == <<"F","o","o">>
Bar == <<"B","a","r">>
SteamLinuxRuntime ==
    <<"S","t","e","a","m","L","i","n","u","x","R","u","n","t","i","m","e">>

BalatroID == "1209665818464358430"
RimWorldID == "363445589247131668"
\* main.go resolveClientID: the identifier of a name the catalog does not hold
SentinelID == "000000000000000000"

\* The decoded catalog data ([]DetectableApp) of this model.
Apps == << [ID |-> BalatroID, Name |-> Balatro],
           [ID |-> RimWorldID, Name |-> RimWorld] >>

EmptyMap == [k \in {} |-> ""]

\* nameToID[key] = id
MapPut(m, key, id) ==
    [k \in (DOMAIN m) \cup {key} |-> IF k = key THEN id ELSE m[k]]

\* an entry whose key is already in the map is not stored
RECURSIVE populateMapFirstWins(_, _)
populateMapFirstWins(m, apps) ==
    IF apps = <<>> THEN m
    ELSE populateMapFirstWins(
           IF normalizeGameName(Head(apps).Name) \in DOMAIN m THEN m
           ELSE MapPut(m, normalizeGameName(Head(apps).Name), Head(apps).ID),
           Tail(apps))

\* main.go populateMap: later entries overwrite earlier ones with the same key
RECURSIVE populateMap(_, _)
populateMap(m, apps) ==
    IF apps = <<>> THEN m
    ELSE populateMap(MapPut(m, normalizeGameName(Head(apps).Name), Head(apps).ID),
                     Tail(apps))

\* main.go resolveClientID
resolveClientID(m, name) ==
    LET norm == normalizeGameName(name) IN
    IF norm \in DOMAIN m THEN m[norm] ELSE SentinelID

\* main.go ignoredGames, before loadConfig merges the configured names
DefaultIgnoredGames ==
    { SteamLinuxRuntime \o <<"_","s","o","l","d","i","e","r">>,
      SteamLinuxRuntime \o <<"_","s","n","i","p","e","r">>,
      SteamLinuxRuntime }

\* ------------------------------------------------------------ process scanner

NUL == "NUL"

\* bytes.Split(data, []byte{0})
RECURSIVE SplitNul(_)
SplitNul(data) ==
    LET i == Index(data, <<NUL>>) IN
    IF i = -1 THEN <<data>>
    ELSE <<SubSeq(data, 1, i)>> \o SplitNul(SliceFrom(data, i + 1))

\* the loop of scanCmdline over the arguments
RECURSIVE firstGameArg(_, _)
firstGameArg(args, ignored) ==
    IF args = <<>> THEN <<>>
    ELSE LET arg == Head(args)
             name == extractSteamGameName(arg)
         IN IF Len(arg) = 0 THEN firstGameArg(Tail(args), ignored)
            ELSE IF name # <<>> /\ name \notin ignored THEN name
            ELSE firstGameArg(Tail(args), ignored)

\* main.go scanCmdline; cmdline = [err, data] is the result of os.ReadFile
scanCmdline(cmdline, ignored) ==
    IF cmdline.err THEN <<>> ELSE firstGameArg(SplitNul(cmdline.data), ignored)

DigitValue(c) == (CHOOSE i \in DOMAIN Digits : Digits[i] = c) - 1
IsDigit(c) == c \in Range(Digits)

\* fmt.Sscanf(pidStr, "%d", &pid): the leading digits, 0 when there are none
RECURSIVE scanInt(_, _)
scanInt(s, acc) ==
    IF s = <<>> \/ ~IsDigit(Head(s)) THEN acc
    ELSE scanInt(Tail(s), acc * 10 + DigitValue(Head(s)))

NoGame == [name |-> <<>>, pid |-> 0]

\* the executable's folder is returned without looking at the ignore set
RECURSIVE scanEntriesNoIgnore(_, _)
scanEntriesNoIgnore(entries, ignored) ==
    IF entries = <<>> THEN NoGame
    ELSE LET entry == Head(entries)
             pidStr == entry.name
             exeName == extractSteamGameName(entry.exe.path)
             cmdName == scanCmdline(entry.cmdline, ignored)
         IN IF ~entry.isDir THEN scanEntriesNoIgnore(Tail(entries), ignored)
            ELSE IF ~IsDigit(pidStr[1]) THEN scanEntriesNoIgnore(Tail(entries), ignored)
            ELSE IF ~entry.exe.err /\ exeName # <<>>
                 THEN [name |-> exeName, pid |-> scanInt(pidStr, 0)]
            ELSE IF cmdName # <<>> /\ cmdName \notin ignored
                 THEN [name |-> cmdName, pid |-> scanInt(pidStr, 0)]
            ELSE scanEntriesNoIgnore(Tail(entries), ignored)

\* a later process with a game overrides an earlier one
RECURSIVE scanEntriesLast(_, _)
scanEntriesLast(entries, ignored) ==
    IF entries = <<>> THEN NoGame
    ELSE LET entry == Head(entries)
             pidStr == entry.name
             exeName == extractSteamGameName(entry.exe.path)
             cmdName == scanCmdline(entry.cmdline, ignored)
             later == scanEntriesLast(Tail(entries), ignored)
         IN IF later # NoGame THEN later
            ELSE IF ~entry.isDir THEN NoGame
            ELSE IF ~IsDigit(pidStr[1]) THEN NoGame
            ELSE IF ~entry.exe.err /\ exeName # <<>> /\ exeName \notin ignored
                 THEN [name |-> exeName, pid |-> scanInt(pidStr, 0)]
            ELSE IF cmdName # <<>> /\ cmdName \notin ignored
                 THEN [name |-> cmdName, pid |-> scanInt(pidStr, 0)]
            ELSE NoGame

\* an executable link that cannot be read ends the scan
RECURSIVE scanEntriesAbort(_, _)
scanEntriesAbort(entries, ignored) ==
    IF entries = <<>> THEN NoGame
    ELSE LET entry == Head(entries)
             pidStr == entry.name
             exeName == extractSteamGameName(entry.exe.path)
             cmdName == scanCmdline(entry.cmdline, ignored)
         IN IF ~entry.isDir THEN scanEntriesAbort(Tail(entries), ignored)
            ELSE IF ~IsDigit(pidStr[1]) THEN scanEntriesAbort(Tail(entries), ignored)
            ELSE IF entry.exe.err THEN NoGame
            ELSE IF exeName # <<>> /\ exeName \notin ignored
                 THEN [name |-> exeName, pid |-> scanInt(pidStr, 0)]
            ELSE IF cmdName # <<>> /\ cmdName \notin ignored
                 THEN [name |-> cmdName, pid |-> scanInt(pidStr, 0)]
            ELSE scanEntriesAbort(Tail(entries), ignored)

\* main.go scanProcesses over the entries of os.ReadDir("/proc"), in its order.
\* entry = [name, isDir, exe |-> [err, path], cmdline |-> [err, data]]
RECURSIVE scanEntries(_, _)
scanEntries(entries, ignored) ==
    IF entries = <<>> THEN NoGame
    ELSE LET entry == Head(entries)
             pidStr == entry.name
             exeName == extractSteamGameName(entry.exe.path)
             cmdName == scanCmdline(entry.cmdline, ignored)
         IN IF ~entry.isDir THEN scanEntries(Tail(entries), ignored)
            ELSE IF ~IsDigit(pidStr[1]) THEN scanEntries(Tail(entries), ignored)
            ELSE IF ~entry.exe.err /\ exeName # <<>> /\ exeName \notin ignored
                 THEN [name |-> exeName, pid |-> scanInt(pidStr, 0)]
            ELSE IF cmdName # <<>> /\ cmdName \notin ignored
                 THEN [name |-> cmdName, pid |-> scanInt(pidStr, 0)]
            ELSE scanEntries(Tail(entries), ignored)

\* main.go scanProcesses; proc = [err, entries] is the result of os.ReadDir
scanProcesses(proc, ignored) ==
    IF proc.err THEN NoGame ELSE scanEntries(proc.entries, ignored)

\* ------------------------------------------------------------ socket locator

\* main.go findDiscordSocket: the candidate paths, in the order they are tried
Candidates == << "/run/user/UID/discord-ipc-0",
                 "/run/user/UID/app/com.discordapp.Discord/discord-ipc-0",
                 "/run/user/UID/snap.discord/discord-ipc-0" >>

NoPath == ""

\* main.go findDiscordSocket; files = the paths os.Stat finds
findDiscordSocket(files) ==
    LET hits == {i \in DOMAIN Candidates : Candidates[i] \in files} IN
    IF hits = {} THEN NoPath
    ELSE Candidates[CHOOSE i \in hits : \A j \in hits : i <= j]

\* ------------------------------------------------------------ connections

\* The descriptors the process may hold; net.Dial takes the lowest free one.
NumFds == 2
Fds == 1..NumFds
Nil == 0

\* A socket of the process.  ops: the opcodes of the frames written on it, a run
\* of opcode-1 frames kept once; hsID: the client_id of its handshake; reads: the
\* readIpcResponse calls made on it; peerUp: the peer still holds its end.
FreeSock == [open |-> FALSE, peerUp |-> FALSE, ops |-> <<>>, hsID |-> "", reads |-> 0]

Append1(ops, opcode) ==
    IF ops # <<>> /\ ops[Len(ops)] = opcode /\ opcode = 1 THEN ops
    ELSE Append(ops, opcode)

\* conn.Close()
closeConn(s, fd) ==
    [s EXCEPT !.socks[fd] = FreeSock,
              !.ev = Append(@, [kind |-> "close", fd |-> fd])]

\* main.go sendIPCPacket: the 8-byte header and the payload in one conn.Write,
\* which fails once the peer has closed its end.
sendIPCPacket(s, fd, frame) ==
    LET ok == s.socks[fd].open /\ s.socks[fd].peerUp IN
    [s |-> [s EXCEPT !.socks[fd].ops = IF ok THEN Append1(@, frame.opcode) ELSE @,
                     !.socks[fd].hsID = IF ok /\ frame.opcode = 0
                                        THEN frame.client_id ELSE @,
                     !.ev = Append(@, [kind |-> "write", fd |-> fd, ok |-> ok,
                                       frame |-> frame])],
     err |-> ~ok]

\* main.go IpcHandshake{V: 1, ClientID: clientID}
IpcHandshake(clientID) == [opcode |-> 0, v |-> 1, client_id |-> clientID]

\* What the peer does with a connection it accepted:
\*   ready      answers the handshake with a frame and keeps the connection
\*   error      answers with an error frame and closes
\*   errorOpen  answers with an error frame and has not closed yet
\*   eof        closes without answering
\*   reset      closes before the handshake is written
\*   silent     neither answers the handshake nor closes
PeerBehaviours == {"ready", "error", "errorOpen", "eof", "reset", "silent"}

\* What a peer that has been silent does when it stops being silent.
LateBehaviours == {"ready", "error", "errorOpen", "eof"}

\* the header read gives up after a deadline
readIpcResponseDeadline(s, fd, behaviour) ==
    LET hdrOk == behaviour \in {"ready", "error", "errorOpen"}
        e1 == [kind |-> "read", fd |-> fd, what |-> "header", ok |-> hdrOk]
        e2 == [kind |-> "read", fd |-> fd, what |-> "payload", ok |-> TRUE]
    IN [s EXCEPT !.socks[fd].reads = @ + 1,
                 !.socks[fd].peerUp = (behaviour \in {"ready", "errorOpen", "silent"}),
                 !.ev = IF hdrOk THEN @ \o <<e1, e2>> ELSE Append(@, e1)]

\* main.go readIpcResponse: header read, then payload read; errors are logged
\* and nothing is returned to the caller.  No deadline is set on the
\* connection: while the peer is silent the header read does not return
\* (blocked), and nothing after it runs.
readIpcResponse(s, fd, behaviour) ==
    LET hdrOk == behaviour \in {"ready", "error", "errorOpen"}
        e1 == [kind |-> "read", fd |-> fd, what |-> "header", ok |-> hdrOk]
        e2 == [kind |-> "read", fd |-> fd, what |-> "payload", ok |-> TRUE]
    IN IF behaviour = "silent" THEN [s EXCEPT !.blocked = TRUE]
       ELSE [s EXCEPT !.socks[fd].reads = @ + 1,
                      !.socks[fd].peerUp = (behaviour \in {"ready", "errorOpen"}),
                      !.ev = IF hdrOk THEN @ \o <<e1, e2>> ELSE Append(@, e1)]

FreeFds(s) == {fd \in Fds : ~s.socks[fd].open}

\* a handshake write that fails leaks the socket
handshakeFailedLeak(s, fd) == [s |-> s, conn |-> Nil, err |-> TRUE]

\* main.go connectIPC, lines 215-218: the handshake could not be written
handshakeFailed(s, fd) == [s |-> closeConn(s, fd), conn |-> Nil, err |-> TRUE]

\* the response to the handshake is never read
handshakeSentNoRead(s, fd, behaviour) == [s |-> s, conn |-> fd, err |-> FALSE]

\* main.go connectIPC, lines 220-224: read the response, return the connection
handshakeSent(s, fd, behaviour) ==
    [s |-> readIpcResponse(s, fd, behaviour), conn |-> fd, err |-> FALSE]

\* main.go connectIPC; env = [files, peerPath, behaviour, hangup]
connectIPC(s, path, clientID, env) ==
    LET dialOk == path = env.peerPath /\ FreeFds(s) # {}
        fd == IF dialOk THEN CHOOSE f \in FreeFds(s) : \A g \in FreeFds(s) : f <= g
              ELSE Nil
        eDial == [kind |-> "dial", path |-> path, ok |-> dialOk, fd |-> fd]
        s1 == [s EXCEPT !.ev = Append(@, eDial)]
    IN IF ~dialOk THEN [s |-> s1, conn |-> Nil, err |-> TRUE]
       ELSE LET s2 == [s1 EXCEPT !.socks[fd] =
                          [FreeSock EXCEPT !.open = TRUE,
                                           !.peerUp = (env.behaviour # "reset")]]
                w == sendIPCPacket(s2, fd, IpcHandshake(clientID))
            IN IF w.err THEN handshakeFailed(w.s, fd)
               ELSE handshakeSent(w.s, fd, env.behaviour)

\* readOSRelease's result, read once at startup
OsRelease == <<"L","i","n","u","x">>
StrPlaying == <<"P","l","a","y","i","n","g"," ">>
StrOn == <<"O","n"," ">>
StrDefault == <<"d","e","f","a","u","l","t">>

\* the process id is left at its zero value
ActivityFrameNoPid(appName, pid, osRelease) ==
    [opcode |-> 1, cmd |-> "SET_ACTIVITY", pid |-> 0,
     details |-> IF appName # <<>> THEN StrPlaying \o appName ELSE <<>>,
     state |-> IF appName # <<>> THEN StrOn \o osRelease ELSE <<>>,
     large_image |-> IF appName # <<>> THEN StrDefault ELSE <<>>,
     large_text |-> IF appName # <<>> THEN appName ELSE <<>>]

\* main.go setActivity: the payload (the nonce, a timestamp, is left out)
ActivityFrame(appName, pid, osRelease) ==
    [opcode |-> 1, cmd |-> "SET_ACTIVITY", pid |-> pid,
     details |-> IF appName # <<>> THEN StrPlaying \o appName ELSE <<>>,
     state |-> IF appName # <<>> THEN StrOn \o osRelease ELSE <<>>,
     large_image |-> IF appName # <<>> THEN StrDefault ELSE <<>>,
     large_text |-> IF appName # <<>> THEN appName ELSE <<>>]

\* main.go setActivity
setActivity(s, fd, appName, pid, osRelease) ==
    sendIPCPacket(s, fd, ActivityFrame(appName, pid, osRelease))

\* ------------------------------------------------------------ bridge loop

\* The loop's locals during one tick: the session (socketPath, currentClientID,
\* ipcConn), the process's sockets, the system calls made so far (ev) and
\* whether a `continue` ended the tick (cont).

\* an empty activity is sent before the connection is closed
noGameStepClear(s) ==
    IF s.ipcConn # Nil
    THEN [closeConn(setActivity(s, s.ipcConn, <<>>, 0, OsRelease).s, s.ipcConn)
            EXCEPT !.ipcConn = Nil, !.currentClientID = ""]
    ELSE s

\* main.go main, lines 424-433: no game running
noGameStep(s) ==
    IF s.ipcConn # Nil
    THEN [closeConn(s, s.ipcConn) EXCEPT !.ipcConn = Nil, !.currentClientID = ""]
    ELSE s

\* the connection is kept whatever its identifier
switchStepNever(s, target) == s

\* the old connection is dropped without being closed
switchStepNoClose(s, target) ==
    IF s.ipcConn # Nil /\ s.currentClientID # target
    THEN [s EXCEPT !.ipcConn = Nil]
    ELSE s

\* a connection is closed whenever a game is detected
switchStepAlways(s, target) ==
    IF s.ipcConn # Nil
    THEN [closeConn(s, s.ipcConn) EXCEPT !.ipcConn = Nil]
    ELSE s

\* main.go main, lines 436-441: connected, but under another identifier
switchStep(s, target) ==
    IF s.ipcConn # Nil /\ s.currentClientID # target
    THEN [closeConn(s, s.ipcConn) EXCEPT !.ipcConn = Nil]
    ELSE s

\* main.go main, lines 445-447: locate the socket when no path is cached
locateStep(s, env) ==
    IF s.socketPath = NoPath
    THEN [s EXCEPT !.socketPath = findDiscordSocket(env.files),
                   !.ev = Append(@, [kind |-> "locate",
                                     path |-> findDiscordSocket(env.files)])]
    ELSE s

\* the identifier of the new connection is not stored
dialStepStaleID(s, target, env) ==
    IF s.socketPath # NoPath
    THEN LET r == connectIPC(s, s.socketPath, target, env) IN
         IF r.s.blocked THEN r.s
         ELSE IF ~r.err
         THEN [r.s EXCEPT !.ipcConn = r.conn]
         ELSE [r.s EXCEPT !.cont = TRUE]
    ELSE s

\* main.go main, lines 448-458: connect on the cached path
dialStep(s, target, env) ==
    IF s.socketPath # NoPath
    THEN LET r == connectIPC(s, s.socketPath, target, env) IN
         IF r.s.blocked THEN r.s
         ELSE IF ~r.err
         THEN [r.s EXCEPT !.ipcConn = r.conn, !.currentClientID = target]
         ELSE [r.s EXCEPT !.cont = TRUE]
    ELSE s

\* main.go main, lines 443-459: connect if disconnected
connectStep(s, target, env) ==
    IF s.ipcConn = Nil THEN dialStep(locateStep(s, env), target, env) ELSE s

\* a response to the activity update is awaited
activityStepAwait(s, det) ==
    IF s.ipcConn # Nil
    THEN readIpcResponse(setActivity(s, s.ipcConn, det.name, det.pid, OsRelease).s,
                         s.ipcConn, "ready")
    ELSE s

\* main.go main, lines 461-464: set activity if connected
activityStep(s, det) ==
    IF s.ipcConn # Nil
    THEN setActivity(s, s.ipcConn, det.name, det.pid, OsRelease).s
    ELSE s

\* main.go main, lines 422-464: one iteration of the loop
loopBody(s, det, target, env) ==
    IF det.name = <<>> THEN [noGameStep(s) EXCEPT !.cont = TRUE]
    ELSE LET s2 == connectStep(switchStep(s, target), target, env) IN
         IF s2.cont \/ s2.blocked THEN s2 ELSE activityStep(s2, det)

\* ------------------------------------------------------------ startup

\* main.go loadConfig: only a readable, well-formed config.json merges its
\* ignored_games into ignoredGames
loadConfig(cfg, ignored) ==
    IF cfg.status # "ok" THEN ignored ELSE ignored \cup Range(cfg.ignored_games)

\* a catalog that cannot be obtained is taken as an empty one
loadGameDataEmptyOnError(cache, fetch, apps) ==
    IF cache = "ok" \/ (cache = "unreadable" /\ fetch = "ok")
    THEN [err |-> FALSE, map |-> populateMap(EmptyMap, apps)]
    ELSE [err |-> FALSE, map |-> EmptyMap]

\* main.go loadGameData: the cache file when it can be read, else the fetch;
\* a cache that cannot be parsed is an error, not a reason to fetch
loadGameData(cache, fetch, apps) ==
    IF cache = "unreadable"
    THEN IF fetch = "ok" THEN [err |-> FALSE, map |-> populateMap(EmptyMap, apps)]
         ELSE [err |-> TRUE, map |-> EmptyMap]
    ELSE IF cache = "ok" THEN [err |-> FALSE, map |-> populateMap(EmptyMap, apps)]
         ELSE [err |-> TRUE, map |-> EmptyMap]

\* ------------------------------------------------------------ inputs

Configs == { [status |-> "missing", ignored_games |-> <<>>],
             [status |-> "invalid", ignored_games |-> <<>>],
             [status |-> "ok", ignored_games |-> <<Bar>>] }
CacheStates == {"ok", "unreadable", "corrupt"}
FetchResults == {"ok", "neterr", "badjson"}

\* The socket files that exist and the path the peer listens on ("" when the
\* peer is not running); a file without a listener is a stale one.
Worlds ==
    { [files |-> {}, peerPath |-> NoPath],
      [files |-> {Candidates[1]}, peerPath |-> NoPath],
      [files |-> {Candidates[1], Candidates[2]}, peerPath |-> Candidates[2]] }
    \cup { [files |-> {Candidates[i]}, peerPath |-> Candidates[i]] :
             i \in DOMAIN Candidates }

SteamDir == <<"/","s","/">> \o SteamKey \o Separator
GamePath(folder) == SteamDir \o folder \o <<"/","x">>
Unreadable == [err |-> TRUE, path |-> <<>>, data |-> <<>>]
ExeLink(path) == [err |-> FALSE, path |-> path, data |-> <<>>]
Cmdline(data) == [err |-> FALSE, path |-> <<>>, data |-> data]
ProcEntry(name, isDir, exe, cmdline) ==
    [name |-> name, isDir |-> isDir, exe |-> exe, cmdline |-> cmdline]

RuntimePath == GamePath(SteamLinuxRuntime \o <<"_","s","n","i","p","e","r">>)
OtherEntries ==
    << ProcEntry(<<"1">>, TRUE, Unreadable, Unreadable),
       ProcEntry(<<"2","0">>, TRUE, ExeLink(<<"/","b","i","n","/","s","h">>),
                 Cmdline(<<"s","h",NUL>>)),
       ProcEntry(<<"s","e","l","f">>, TRUE, ExeLink(GamePath(Foo)), Unreadable),
       ProcEntry(<<"3","0">>, FALSE, ExeLink(GamePath(Foo)), Unreadable),
       ProcEntry(<<"3","1">>, TRUE, ExeLink(RuntimePath),
                 Cmdline(RuntimePath \o <<NUL>>)) >>

\* The process tables a tick may find, as os.ReadDir("/proc") lists them.
ProcTables ==
    << [err |-> FALSE, entries |-> OtherEntries],
       [err |-> FALSE, entries |-> OtherEntries \o
          << ProcEntry(<<"4","3","2","1">>, TRUE, ExeLink(GamePath(Balatro)),
                       Cmdline(GamePath(Balatro) \o <<NUL>>)) >>],
       [err |-> FALSE, entries |-> OtherEntries \o
          << ProcEntry(<<"7","7">>, TRUE, ExeLink(RuntimePath),
                       Cmdline(RuntimePath \o <<NUL, NUL, "-","-",NUL>>
                               \o GamePath(RimWorld) \o <<NUL>>)) >>],
       [err |-> FALSE, entries |-> OtherEntries \o
          << ProcEntry(<<"9">>, TRUE, ExeLink(GamePath(Foo)), Unreadable) >>],
       [err |-> FALSE, entries |->
          << ProcEntry(<<"5">>, TRUE, ExeLink(GamePath(Bar)), Unreadable),
             ProcEntry(<<"8","8">>, TRUE, Unreadable,
                       Cmdline(GamePath(<<"B","A","L","A","T","R","O","!">>)
                               \o <<NUL>>)) >>] >>

\* ---- scanner inputs: tables of up to MaxProcs entries, in the order of
\* os.ReadDir (sorted by name); the entry at position i is named by PidName(i)
\* or, when it is not a process, by OtherName(i).
MaxProcs == 2
FolderA == <<"A">>
FolderB == <<"B">>
FolderI == <<"I">>
PidName(i) == <<Digits[i + 1], Digits[i + 2]>>
PidNumber(i) == 10 * i + (i + 1)
OtherName(i) == <<"s", Digits[i + 1]>>
ExeChoices ==
    { Unreadable, ExeLink(<<"/","b","i","n","/","s","h">>),
      ExeLink(GamePath(FolderA)), ExeLink(GamePath(FolderI)) }
CmdChoices ==
    { Unreadable, Cmdline(<<>>),
      Cmdline(GamePath(FolderB) \o <<NUL>>),
      Cmdline(GamePath(FolderI) \o <<NUL>>),
      Cmdline(GamePath(FolderI) \o <<NUL, NUL>> \o GamePath(FolderB) \o <<NUL>>) }
EntryShapes ==
    [kind : {"pid"}, exe : ExeChoices, cmdline : CmdChoices]
    \cup [kind : {"file", "other"}, exe : {ExeLink(GamePath(FolderA))},
          cmdline : {Cmdline(GamePath(FolderB) \o <<NUL>>)}]
\* entries that are not named by a number sort after those that are
Sorted(shapes) ==
    \A i, j \in DOMAIN shapes : (i < j /\ shapes[i].kind = "other") => shapes[j].kind = "other"
ShapeTables ==
    {t \in UNION {[1..n -> EntryShapes] : n \in 0..MaxProcs} : Sorted(t)}
EntriesOf(shapes) ==
    [i \in DOMAIN shapes |->
       ProcEntry(IF shapes[i].kind = "other" THEN OtherName(i) ELSE PidName(i),
                 shapes[i].kind # "file", shapes[i].exe, shapes[i].cmdline)]
IgnoreSets == {{}, {FolderI}, {FolderI, FolderA}}
ScanInputs ==
    {[err |-> FALSE, entries |-> EntriesOf(t)] : t \in ShapeTables}
    \cup {[err |-> TRUE, entries |-> <<>>]}

\* ---- extraction inputs: paths made of up to MaxParts pieces, and the two
\* paths of the specification's examples
MaxParts == 4
StrSteamapps == <<"s","t","e","a","m","a","p","p","s">>
StrCommon == <<"c","o","m","m","o","n">>
PathPieces ==
    { <<"/","a">>, <<"/">> \o Balatro, <<"/">>, <<"x">>,
      SteamKey, <<"/">> \o SteamKey, <<"/">> \o StrSteamapps, <<"/">> \o StrCommon }
RECURSIVE Concat(_)
Concat(parts) == IF parts = <<>> THEN <<>> ELSE Head(parts) \o Concat(Tail(parts))
ExamplePath ==
    <<"/","a","/">> \o SteamKey \o <<"/">> \o Balatro
    \o <<"/","b","a","l","a","t","r","o",".","e","x","e">>
NoSuchPath == <<"/","n","o","/","s","u","c","h","/","p","a","t","h">>
Paths ==
    {Concat(parts) : parts \in UNION {[1..n -> PathPieces] : n \in 1..MaxParts}}
    \cup {ExamplePath, NoSuchPath}

\* ---- catalog inputs: up to MaxApps decoded entries, and the name looked up
MaxApps == 2
BalatroShout == <<"B","A","L","A","T","R","O","!">>
Bangs == <<"!","!">>
AppNames == {Balatro, BalatroShout, RimWorld, Bangs}
AppIDs == {BalatroID, RimWorldID}
Catalogs == UNION {[1..n -> [ID : AppIDs, Name : AppNames]] : n \in 0..MaxApps}
LookupNames == AppNames \cup {Foo, <<"b","a","l","a","t","r","o">>, <<"?">>}

\* ---- normalization inputs: strings of up to MaxLen characters
MaxLen == 3
CharSamples == {"A", "Z", "b", "7", " ", "!", KelvinSign, UpperEAcute, LowerEAcute}
Strings == UNION {[1..n -> CharSamples] : n \in 0..MaxLen}

\* ------------------------------------------------------------ frame bytes

\* Bytes are the integers 0..255.  The model's integers are 32 bits wide, so
\* 2^31 is written MaxInt32 + 1 and an unsigned value is formed only where it
\* is below 2^31.
MaxInt32 == 2147483647
MinInt32 == -2147483647 - 1
HeaderLen == 8

\* the four bytes of a non-negative int32, least significant first
LowBytes(u) ==
    <<u % 256, (u \div 256) % 256, (u \div 65536) % 256, (u \div 16777216) % 256>>

\* the bytes are written most significant first
putInt32BigEndian(n) ==
    LET le == IF n >= 0 THEN LowBytes(n)
              ELSE [LowBytes((n + MaxInt32) + 1) EXCEPT ![4] = @ + 128]
    IN <<le[4], le[3], le[2], le[1]>>

\* main.go sendIPCPacket: binary.Write(buf, binary.LittleEndian, int32(n)),
\* two's complement
putInt32(n) ==
    IF n >= 0 THEN LowBytes(n)
    ELSE [LowBytes((n + MaxInt32) + 1) EXCEPT ![4] = @ + 128]

\* main.go sendIPCPacket: the bytes handed to the one conn.Write
ipcPacketBytes(opcode, payload) ==
    putInt32(opcode) \o putInt32(Len(payload)) \o payload

\* main.go readIpcResponse: binary.LittleEndian.Uint32 (of bytes whose value is
\* below 2^31)
Uint32(b) == b[1] + b[2] * 256 + b[3] * 65536 + b[4] * 16777216

\* the first four header bytes as a little-endian signed integer
Int32(b) ==
    IF b[4] < 128 THEN Uint32(b)
    ELSE (Uint32([b EXCEPT ![4] = @ - 128]) - MaxInt32) - 1

\* make([]byte, n): n zero bytes
Zeros(n) == [i \in 1..n |-> 0]

\* a buffer of n bytes after a Read that stored data at its start
Filled(n, data) == data \o Zeros(n - Len(data))

Min(a, b) == IF a <= b THEN a ELSE b

\* conn.Read(buf) with len(buf) = n on a stream socket whose pending bytes
\* arrived as the chunks of `stream`: one call returns the bytes that are
\* there, at most n of them; a zero-length buffer returns at once; a stream
\* the peer has ended returns an error.
connRead(stream, n) ==
    IF n = 0 THEN [data |-> <<>>, rest |-> stream, err |-> FALSE]
    ELSE IF stream = <<>> THEN [data |-> <<>>, rest |-> stream, err |-> TRUE]
    ELSE LET c == Head(stream)
             k == Min(n, Len(c))
         IN [data |-> SubSeq(c, 1, k),
             rest |-> IF k = Len(c) THEN Tail(stream)
                      ELSE <<SubSeq(c, k + 1, Len(c))>> \o Tail(stream),
             err |-> FALSE]

\* main.go readIpcResponse on the bytes of a stream: the header buffer, the
\* payload buffer that is logged, and what is left unread
readIpcResponseBytes(stream) ==
    LET r1 == connRead(stream, HeaderLen)
        header == Filled(HeaderLen, r1.data)
    IN IF r1.err
       THEN [err |-> TRUE, header |-> header, payload |-> <<>>, rest |-> r1.rest]
       ELSE LET dataLen == Uint32(SubSeq(header, 5, 8))
                r2 == connRead(r1.rest, dataLen)
            IN [err |-> r2.err, header |-> header,
                payload |-> Filled(dataLen, r2.data), rest |-> r2.rest]

\* the number of bytes in a stream
RECURSIVE StreamLen(_)
StreamLen(stream) ==
    IF stream = <<>> THEN 0 ELSE Len(Head(stream)) + StreamLen(Tail(stream))

\* ---- codec inputs
MaxBody == 2
MaxChunks == 3
ByteSamples == {0, 1, 123, 255}
Opcodes == {MinInt32, -1, 0, 1, 256, MaxInt32}
ShortBodies == UNION {[1..n -> ByteSamples] : n \in 0..MaxBody}
LongBodies == {[i \in 1..n |-> 123] : n \in {256, 300}}
Bodies == ShortBodies \cup LongBodies
CutPoints(w) == {1, 4, 5, 7, 8, 9, Len(w) - 1} \cap (1..(Len(w) - 1))
Cuts(w) == {c \in SUBSET CutPoints(w) : Cardinality(c) < MaxChunks}

\* the bytes w as the chunks that end at the cuts
RECURSIVE Split(_, _)
Split(w, cuts) ==
    IF cuts = {} THEN <<w>>
    ELSE LET k == CHOOSE c \in cuts : \A d \in cuts : c <= d
         IN <<SubSeq(w, 1, k)>>
            \o Split(SubSeq(w, k + 1, Len(w)), {c - k : c \in cuts \ {k}})

\* ------------------------------------------------------------ state

VARIABLES
    pc,               \* "start" before main's loop, "loop" in it, "exited" after
                      \* log.Fatalf, "blocked" inside a read that has not returned
    nameToID,         \* main.go nameToID
    ignoredGames,     \* main.go ignoredGames
    socketPath,       \* main's socketPath
    currentClientID,  \* main's currentClientID
    ipcConn,          \* main's ipcConn: a descriptor, or Nil
    socks,            \* the sockets of the process, by descriptor
    last,             \* the last finished tick: what it found, what it did
    pending,          \* the tick that is blocked in a read: what it found, and
                      \* its locals where it stands
    hist,             \* the summaries of the latest ticks that run through the
                      \* scenario [A, A, none, B] from a disconnected session
    io,               \* a function of the program taken alone: its input, and
                      \* its output once it has been applied
    boot              \* what main's startup met and did: whether the catalog
                      \* could not be obtained, whether the socket was probed

vars == <<pc, nameToID, ignoredGames, socketPath, currentClientID, ipcConn,
          socks, last, pending, hist, io, boot>>

bridgeVars == <<pc, nameToID, ignoredGames, socketPath, currentClientID, ipcConn,
                socks, last, pending, hist, boot>>

NoBoot == [done |-> FALSE, unavailable |-> FALSE, probed |-> FALSE]

\* The catalog cannot be obtained: no cache file and the fetch fails (no
\* answer, or an answer that does not decode), or a cache file that does not
\* parse.
CatalogUnavailable(cache, fetch) ==
    \/ cache = "unreadable" /\ fetch \in {"neterr", "badjson"}
    \/ cache = "corrupt"

NoIO == [fn |-> "none"]

NoEnv == [files |-> {}, peerPath |-> NoPath, behaviour |-> "none", hangup |-> FALSE]
NoTick ==
    [valid |-> FALSE, det |-> NoGame, target |-> "", env |-> NoEnv,
     pre |-> [socketPath |-> NoPath, currentClientID |-> "", ipcConn |-> Nil,
              open |-> {}],
     ev |-> <<>>, cont |-> FALSE,
     prev |-> [valid |-> FALSE, name |-> <<>>, error |-> FALSE,
               connFailed |-> FALSE, noSocket |-> FALSE]]

NoPending ==
    [active |-> FALSE, det |-> NoGame, target |-> "", env |-> NoEnv,
     s |-> [socketPath |-> NoPath, currentClientID |-> "", ipcConn |-> Nil,
            socks |-> [fd \in Fds |-> FreeSock], ev |-> <<>>, cont |-> FALSE,
            blocked |-> FALSE]]

\* ---- what a tick did, read off its system calls
EventsOf(l, kind) == {i \in DOMAIN l.ev : l.ev[i].kind = kind}
Dials(l) == EventsOf(l, "dial")
Closes(l) == EventsOf(l, "close")
Locates(l) == EventsOf(l, "locate")
Reads(l) == EventsOf(l, "read")
Writes(l, opcode) == {i \in EventsOf(l, "write") : l.ev[i].frame.opcode = opcode}
FailedDials(l) == {i \in Dials(l) : ~l.ev[i].ok}
FailedWrites(l, opcode) == {i \in Writes(l, opcode) : ~l.ev[i].ok}
Delivered(l) == {i \in Writes(l, 1) : l.ev[i].ok}

\* A per-tick error: the socket was not found, the connect failed, or the
\* activity update could not be written.
TickError(l) ==
    /\ l.valid
    /\ \/ \E i \in Locates(l) : l.ev[i].path = NoPath
       \/ FailedDials(l) # {}
       \/ FailedWrites(l, 0) # {}
       \/ FailedWrites(l, 1) # {}

\* The latest connect attempt, in this tick or before it, failed.
ConnFailed(l) ==
    IF Dials(l) # {} THEN FailedDials(l) # {} \/ FailedWrites(l, 0) # {}
    ELSE l.prev.connFailed

Summary(l) ==
    [name |-> l.det.name, target |-> l.target, wasConnected |-> l.pre.ipcConn # Nil,
     dials |-> Cardinality(Dials(l)), closes |-> Cardinality(Closes(l)),
     handshakes |-> {l.ev[i].frame.client_id : i \in Writes(l, 0)},
     updates |-> Cardinality(Writes(l, 1))]

\* The peer is reachable and every connect of the tick succeeded.
AllGood(l) == l.env.peerPath # NoPath /\ FailedDials(l) = {} /\ FailedWrites(l, 0) = {}

\* The tick continues the scenario [A, A, none, B] that h is a prefix of.
Continues(h, l) ==
    /\ AllGood(l)
    /\ \/ Len(h) = 1 /\ l.det.name = h[1].name
       \/ Len(h) = 2 /\ l.det.name = <<>>
       \/ Len(h) = 3 /\ l.det.name # <<>> /\ l.target # h[1].target

Starts(l) == AllGood(l) /\ l.pre.ipcConn = Nil /\ l.det.name # <<>>

NextHist(h, l) ==
    IF Continues(h, l) THEN Append(h, Summary(l))
    ELSE IF Starts(l) THEN <<Summary(l)>>
    ELSE <<>>

\* The peer closes its end of every connection.
peerHangup(sk) ==
    [fd \in Fds |-> IF sk[fd].open THEN [sk[fd] EXCEPT !.peerUp = FALSE] ELSE sk[fd]]

ConnUp == ipcConn # Nil /\ socks[ipcConn].peerUp

\* A peer that is not running holds no connection.
HangupChoices(w) ==
    IF ~ConnUp THEN {FALSE} ELSE IF w.peerPath = NoPath THEN {TRUE} ELSE BOOLEAN

Init ==
    /\ io = NoIO
    /\ boot = NoBoot
    /\ pc = "start"
    /\ nameToID = EmptyMap
    /\ ignoredGames = DefaultIgnoredGames
    /\ socketPath = NoPath
    /\ currentClientID = ""
    /\ ipcConn = Nil
    /\ socks = [fd \in Fds |-> FreeSock]
    /\ last = NoTick
    /\ pending = NoPending
    /\ hist = <<>>

\* main.go main, lines 403-420: configuration, catalog, first socket probe
Startup ==
    /\ pc = "start"
    /\ \E cfg \in Configs, cache \in CacheStates, fetch \in FetchResults, w \in Worlds :
         LET r == loadGameData(cache, fetch, Apps) IN
         /\ ignoredGames' = loadConfig(cfg, ignoredGames)
         /\ IF r.err
            THEN /\ pc' = "exited"
                 /\ boot' = [done |-> TRUE, probed |-> FALSE,
                             unavailable |-> CatalogUnavailable(cache, fetch)]
                 /\ UNCHANGED <<nameToID, socketPath>>
            ELSE /\ pc' = "loop"
                 /\ boot' = [done |-> TRUE, probed |-> TRUE,
                             unavailable |-> CatalogUnavailable(cache, fetch)]
                 /\ nameToID' = r.map
                 /\ socketPath' = findDiscordSocket(w.files)
    /\ UNCHANGED <<currentClientID, ipcConn, socks, last, pending, hist, io>>

\* The tick record of a body run: what it found, what it did.
TickRecord(det, target, env, s1) ==
    [valid |-> TRUE, det |-> det, target |-> target, env |-> env,
     pre |-> [socketPath |-> socketPath, currentClientID |-> currentClientID,
              ipcConn |-> ipcConn, open |-> {fd \in Fds : socks[fd].open}],
     ev |-> s1.ev, cont |-> s1.cont,
     prev |-> [valid |-> last.valid, name |-> last.det.name,
               error |-> TickError(last), connFailed |-> ConnFailed(last),
               noSocket |-> last.valid /\ last.env.files = {}]]

\* main.go main, line 434 (no identifier is resolved when no game is running)
TargetOf(det) ==
    IF det.name = <<>> THEN "" ELSE resolveClientID(nameToID, det.name)

\* The locals of a tick at its start.
TickStart(hangup) ==
    [socketPath |-> socketPath, currentClientID |-> currentClientID,
     ipcConn |-> ipcConn,
     socks |-> IF hangup THEN peerHangup(socks) ELSE socks,
     ev |-> <<>>, cont |-> FALSE, blocked |-> FALSE]

\* The end of an iteration: the loop's variables as the body left them.
Finish(det, target, env, s1) ==
    \E l \in {TickRecord(det, target, env, s1)} :
      /\ socketPath' = s1.socketPath
      /\ currentClientID' = s1.currentClientID
      /\ ipcConn' = s1.ipcConn
      /\ socks' = s1.socks
      /\ last' = l
      /\ hist' = NextHist(hist, l)
      /\ pending' = NoPending
      /\ pc' = "loop"

\* main.go main, lines 421-465: one tick of the ticker.  The peer's behaviour
\* is drawn only when the tick has a connection accepted.  A body that blocks
\* in readIpcResponse does not finish: the tick stays pending.
Tick ==
    /\ pc = "loop"
    /\ \E t \in DOMAIN ProcTables :
       \E det \in {scanProcesses(ProcTables[t], ignoredGames)} :
       \E target \in {TargetOf(det)} :
       \E w \in Worlds :
       \E hangup \in HangupChoices(w) :
       \E s0 \in {TickStart(hangup)} :
       \E env0 \in {[files |-> w.files, peerPath |-> w.peerPath,
                     behaviour |-> "ready", hangup |-> hangup]} :
       \E probe \in {loopBody(s0, det, target, env0)} :
       \E b \in IF \E i \in DOMAIN probe.ev : probe.ev[i].kind = "dial" /\ probe.ev[i].ok
                THEN PeerBehaviours ELSE {"none"} :
       \E env \in {[env0 EXCEPT !.behaviour = b]} :
       \E s1 \in {loopBody(s0, det, target, env)} :
         IF s1.blocked
         THEN /\ pc' = "blocked"
              /\ pending' = [active |-> TRUE, det |-> det, target |-> target,
                             env |-> env, s |-> s1]
              /\ UNCHANGED <<socketPath, currentClientID, ipcConn, socks, last, hist>>
         ELSE Finish(det, target, env, s1)
    /\ UNCHANGED <<nameToID, ignoredGames, io, boot>>

\* The peer stops being silent (it answers, or it closes): the read of the
\* pending tick returns and the body runs to its end.
Unblock ==
    /\ pc = "blocked"
    /\ \E b \in LateBehaviours :
       \E env \in {[pending.env EXCEPT !.behaviour = b]} :
       \E s1 \in {loopBody(TickStart(env.hangup), pending.det, pending.target, env)} :
         Finish(pending.det, pending.target, env, s1)
    /\ UNCHANGED <<nameToID, ignoredGames, io, boot>>

Next == Startup \/ Tick \/ Unblock


Spec == Init /\ [][Next]_vars

\* ------------------------------------------------------------ functions alone

\* The bridge before main has run, while a function is applied on its own.
BridgeIdle ==
    /\ pc = "start"
    /\ nameToID = EmptyMap
    /\ ignoredGames = DefaultIgnoredGames
    /\ socketPath = NoPath
    /\ currentClientID = ""
    /\ ipcConn = Nil
    /\ socks = [fd \in Fds |-> FreeSock]
    /\ last = NoTick
    /\ pending = NoPending
    /\ hist = <<>>
    /\ boot = NoBoot

\* ---- the frame codec: a frame is written, arrives in chunks, and is read
CodecInit ==
    /\ BridgeIdle
    /\ io \in [fn : {"codec"}, stage : {"frame"}, opcode : Opcodes, body : Bodies]

\* main.go sendIPCPacket; the peer's stream then carries the bytes in chunks
Send ==
    /\ io.fn = "codec" /\ io.stage = "frame"
    /\ \E wire \in {ipcPacketBytes(io.opcode, io.body)} :
       \E cuts \in Cuts(wire) :
         io' = [fn |-> "codec", stage |-> "sent", opcode |-> io.opcode,
                body |-> io.body, wire |-> wire, cuts |-> cuts,
                stream |-> Split(wire, cuts)]
    /\ UNCHANGED bridgeVars

\* main.go readIpcResponse
Receive ==
    /\ io.fn = "codec" /\ io.stage = "sent"
    /\ \E r \in {readIpcResponseBytes(io.stream)} :
         io' = [fn |-> "codec", stage |-> "read", opcode |-> io.opcode,
                body |-> io.body, wire |-> io.wire, cuts |-> io.cuts,
                stream |-> io.stream, r |-> r]
    /\ UNCHANGED bridgeVars

CodecNext == Send \/ Receive

\* ---- the scanner: one scan of a process table under an ignore set
ScanInit ==
    /\ BridgeIdle
    /\ io \in [fn : {"scan"}, stage : {"table"}, proc : ScanInputs, ignored : IgnoreSets]

\* main.go scanProcesses
Scan ==
    /\ io.fn = "scan" /\ io.stage = "table"
    /\ io' = [fn |-> "scan", stage |-> "scanned", proc |-> io.proc,
              ignored |-> io.ignored, out |-> scanProcesses(io.proc, io.ignored)]
    /\ UNCHANGED bridgeVars

ScanNext == Scan

\* ---- the folder extraction applied to one path
ExtractInit ==
    /\ BridgeIdle
    /\ io \in [fn : {"extract"}, stage : {"path"}, path : Paths]

\* main.go extractSteamGameName
Extract ==
    /\ io.fn = "extract" /\ io.stage = "path"
    /\ io' = [fn |-> "extract", stage |-> "extracted", path |-> io.path,
              out |-> extractSteamGameName(io.path)]
    /\ UNCHANGED bridgeVars

ExtractNext == Extract

ExtractSpec == ExtractInit /\ [][ExtractNext]_vars

\* ---- the catalog: the map is populated from the decoded entries, then one
\* name is resolved
CatalogInit ==
    /\ BridgeIdle
    /\ io \in [fn : {"catalog"}, stage : {"decoded"}, apps : Catalogs,
               name : LookupNames]

\* main.go populateMap
Populate ==
    /\ io.fn = "catalog" /\ io.stage = "decoded"
    /\ io' = [fn |-> "catalog", stage |-> "indexed", apps |-> io.apps,
              name |-> io.name, map |-> populateMap(EmptyMap, io.apps)]
    /\ UNCHANGED bridgeVars

\* main.go resolveClientID
Resolve ==
    /\ io.fn = "catalog" /\ io.stage = "indexed"
    /\ io' = [fn |-> "catalog", stage |-> "resolved", apps |-> io.apps,
              name |-> io.name, map |-> io.map,
              out |-> resolveClientID(io.map, io.name)]
    /\ UNCHANGED bridgeVars

CatalogNext == Populate \/ Resolve

CatalogSpec == CatalogInit /\ [][CatalogNext]_vars

\* ---- the normalization applied to a string, and again to its result
NormalizeInit ==
    /\ BridgeIdle
    /\ io \in [fn : {"normalize"}, stage : {"input"}, x : Strings]

\* main.go normalizeGameName
Normalize ==
    /\ io.fn = "normalize" /\ io.stage = "input"
    /\ io' = [fn |-> "normalize", stage |-> "once", x |-> io.x,
              out |-> normalizeGameName(io.x)]
    /\ UNCHANGED bridgeVars

\* main.go normalizeGameName, on its own result
NormalizeAgain ==
    /\ io.fn = "normalize" /\ io.stage = "once"
    /\ io' = [fn |-> "normalize", stage |-> "twice", x |-> io.x, out |-> io.out,
              again |-> normalizeGameName(io.out)]
    /\ UNCHANGED bridgeVars

NormalizeNext == Normalize \/ NormalizeAgain

NormalizeSpec == NormalizeInit /\ [][NormalizeNext]_vars

ScanSpec == ScanInit /\ [][ScanNext]_vars

CodecSpec == CodecInit /\ [][CodecNext]_vars

\* ------------------------------------------------------------ claims

Connected == ipcConn # Nil
OpenFds == {fd \in Fds : socks[fd].open}
GameDetected(l) == l.det.name # <<>>
PeerReachable(l) == l.env.peerPath # NoPath

\* C1: with a reachable peer and every connect succeeding, ticks detecting
\* [A, A, none, B] from a disconnected session dial exactly on tick 1 (handshake
\* as A) and tick 4 (handshake as B), tick 2 only sends an activity update, and
\* tick 3 closes the connection; and on any tick with a reachable peer a connect
\* is attempted iff a game is detected and the session is disconnected or
\* connected under another identifier than the target.
C1_ConnectExactlyWhenNeeded ==
    /\ Len(hist) >= 1 =>
         /\ hist[1].dials = 1 /\ hist[1].handshakes = {hist[1].target}
         /\ hist[1].closes = 0
    /\ Len(hist) >= 2 =>
         /\ hist[2].dials = 0 /\ hist[2].closes = 0 /\ hist[2].handshakes = {}
         /\ hist[2].updates = 1
    /\ Len(hist) >= 3 =>
         /\ hist[3].closes = 1 /\ hist[3].dials = 0 /\ hist[3].updates = 0
    /\ Len(hist) >= 4 =>
         /\ hist[4].dials = 1 /\ hist[4].handshakes = {hist[4].target}
         /\ hist[4].target # hist[1].target
    /\ (last.valid /\ PeerReachable(last)) =>
         /\ Cardinality(Dials(last)) <= 1
         /\ Dials(last) # {} <=>
              /\ GameDetected(last)
              /\ \/ last.pre.ipcConn = Nil
                 \/ last.pre.currentClientID # last.target

\* C1's case: the four ticks of the scenario have run.
C1_Witness == Len(hist) = 4 /\ hist[1].target = BalatroID

\* C2: at the end of every tick, currentClientID is non-empty iff ipcConn is a
\* live connection.
C2_IdIffConnection ==
    last.valid => ((currentClientID # "") <=> (ipcConn # Nil))

\* C3: when the detected game is not in the catalog and the peer rejects the
\* handshake made with the sentinel identifier (error frame, or closed socket),
\* the session is Disconnected at the end of the tick and no opcode-1 frame was
\* sent.
C3_SentinelIsConnectFailure ==
    ( /\ last.valid /\ GameDetected(last)
      /\ normalizeGameName(last.det.name) \notin DOMAIN nameToID
      /\ Writes(last, 0) # {}
      /\ last.env.behaviour \in {"error", "errorOpen", "eof"} )
    => (ipcConn = Nil /\ Writes(last, 1) = {})

\* The peer listens where the session looks for it: on the first candidate
\* path that exists, which is also the cached path when one is cached.
PeerReachableAgain(l) ==
    /\ l.env.peerPath # NoPath
    /\ findDiscordSocket(l.env.files) = l.env.peerPath
    /\ l.pre.socketPath \in {NoPath, l.env.peerPath}

\* C4: a tick that follows a tick with a per-tick error, detects the same game
\* and finds the peer reachable and answering, delivers the activity update.
C4_SelfHealsNextTick ==
    ( /\ last.valid /\ last.prev.error
      /\ GameDetected(last) /\ last.det.name = last.prev.name
      /\ PeerReachableAgain(last) /\ last.env.behaviour \in {"ready", "none"} )
    => Delivered(last) # {}

\* C5: after a failed connect, the next connect attempt runs the socket locator
\* again.
C5_ReprobeAfterFailedConnect ==
    (last.valid /\ last.prev.connFailed /\ Dials(last) # {}) => Locates(last) # {}

\* C6: a tick whose socket open or handshake write fails ends Disconnected with
\* no socket open and no activity update sent; a tick makes at most one connect
\* attempt; and after a failed connect the next tick that detects a game makes a
\* connect attempt.
C6_FailedConnectStaysDisconnected ==
    /\ (last.valid /\ (FailedDials(last) # {} \/ FailedWrites(last, 0) # {})) =>
         /\ ipcConn = Nil
         /\ OpenFds = {}
         /\ Writes(last, 1) = {}
    /\ last.valid => Cardinality(Dials(last)) <= 1
    /\ (last.valid /\ last.prev.connFailed /\ GameDetected(last)) => Dials(last) # {}

\* C6's case: a retry after a failed connect, whose handshake write fails.
C6_Witness ==
    /\ last.valid /\ last.prev.connFailed /\ GameDetected(last)
    /\ FailedWrites(last, 0) # {}

\* The sockets open after the first k system calls of tick l.
RECURSIVE LiveAfter(_, _)
LiveAfter(l, k) ==
    IF k = 0 THEN l.pre.open
    ELSE LET e == l.ev[k]
             before == LiveAfter(l, k - 1)
         IN IF e.kind = "dial" /\ e.ok THEN before \cup {e.fd}
            ELSE IF e.kind = "close" THEN before \ {e.fd}
            ELSE before

\* C7: at most one connection is open at any time: after every system call of
\* every tick; the old socket is closed before a new one is dialed, and a socket
\* whose handshake write failed is closed right after that write.
C7_AtMostOneLiveConnection ==
    /\ Cardinality(OpenFds) <= 1
    /\ ipcConn # Nil => OpenFds = {ipcConn}
    /\ \A k \in 0..Len(last.ev) : Cardinality(LiveAfter(last, k)) <= 1
    /\ \A i \in Dials(last) : LiveAfter(last, i - 1) = {}
    /\ \A i \in FailedWrites(last, 0) :
         /\ i < Len(last.ev)
         /\ last.ev[i + 1].kind = "close" /\ last.ev[i + 1].fd = last.ev[i].fd

\* C7's case: a game switch, the old socket closed and a new one dialed.
C7_Witness ==
    /\ last.valid /\ last.pre.ipcConn # Nil
    /\ \E i \in Closes(last) : \E j \in Dials(last) : i < j /\ last.ev[j].ok

\* C8: a tick that detects no game while Connected closes the socket, clears
\* the identifier, writes no frame and does nothing else.
C8_NoGameClosesSilently ==
    (last.valid /\ ~GameDetected(last) /\ last.pre.ipcConn # Nil) =>
       /\ last.ev = << [kind |-> "close", fd |-> last.pre.ipcConn] >>
       /\ ipcConn = Nil
       /\ currentClientID = ""
       /\ OpenFds = {}
       /\ last.cont

\* C8's case: no game detected while Connected.
C8_Witness == last.valid /\ ~GameDetected(last) /\ last.pre.ipcConn # Nil

\* C9: on every connection the first frame written is one opcode-0 handshake
\* with v = 1 and client_id = the target identifier, one response read follows
\* it, and every opcode-1 frame is written after that handshake.
C9_HandshakeFirst ==
    /\ \A i \in Dials(last) : last.ev[i].ok =>
         /\ i < Len(last.ev)
         /\ last.ev[i + 1].kind = "write"
         /\ last.ev[i + 1].fd = last.ev[i].fd
         /\ last.ev[i + 1].frame = [opcode |-> 0, v |-> 1, client_id |-> last.target]
    /\ \A i \in Writes(last, 0) :
         /\ i > 1 /\ last.ev[i - 1].kind = "dial" /\ last.ev[i - 1].ok
         /\ (last.ev[i].ok =>
              /\ i < Len(last.ev)
              /\ last.ev[i + 1].kind = "read" /\ last.ev[i + 1].what = "header"
              /\ last.ev[i + 1].fd = last.ev[i].fd
              /\ Cardinality({j \in Reads(last) : last.ev[j].what = "header"}) = 1)
    /\ \A i \in Writes(last, 1) :
         /\ last.ev[i].fd = ipcConn
         /\ \/ \E j \in Writes(last, 0) :
                 j < i /\ last.ev[j].ok /\ last.ev[j].fd = last.ev[i].fd
            \/ /\ last.pre.ipcConn = ipcConn
               /\ Dials(last) = {} /\ Closes(last) = {}
    /\ \A fd \in OpenFds :
         /\ socks[fd].ops \in {<<0>>, <<0, 1>>}
         /\ socks[fd].reads = 1
         /\ socks[fd].hsID = currentClientID

\* C9's case: a connection is opened and an activity update delivered on it.
C9_Witness ==
    /\ last.valid
    /\ \E i \in Writes(last, 0) : last.ev[i].ok
    /\ Delivered(last) # {}

\* C10: while no candidate socket path exists, a tick that detects a game
\* re-probes the candidate paths, makes no connection attempt, sends no frame
\* and leaves the session Disconnected, and the loop goes on; once a candidate
\* path exists, a tick that detects a game attempts a connect on that path.
C10_ProbeUntilSocketAppears ==
    /\ (last.valid /\ GameDetected(last) /\ last.env.files = {}) =>
         /\ Locates(last) # {}
         /\ Dials(last) = {}
         /\ Writes(last, 0) = {} /\ Writes(last, 1) = {}
         /\ ipcConn = Nil
         /\ pc = "loop"
    /\ ( /\ last.valid /\ GameDetected(last) /\ last.env.files # {}
         /\ last.prev.valid /\ last.prev.noSocket ) =>
         \E i \in Dials(last) : last.ev[i].path = findDiscordSocket(last.env.files)

\* C11: a tick that detects a game and ends Connected makes exactly one
\* opcode-1 SET_ACTIVITY write, the last system call of the tick (no response
\* is read for it); a tick that ends Disconnected makes no opcode-1 write.
C11_OneUpdatePerConnectedTick ==
    /\ (last.valid /\ GameDetected(last) /\ ipcConn # Nil) =>
         /\ Cardinality(Writes(last, 1)) = 1
         /\ Writes(last, 1) = {Len(last.ev)}
         /\ last.ev[Len(last.ev)].frame.cmd = "SET_ACTIVITY"
         /\ last.ev[Len(last.ev)].fd = ipcConn
    /\ (last.valid /\ ipcConn = Nil) => Writes(last, 1) = {}

\* C11's case: a tick on a connection of an earlier tick sends its one update.
C11_Witness ==
    /\ last.valid /\ GameDetected(last) /\ ipcConn # Nil
    /\ last.pre.ipcConn = ipcConn /\ Delivered(last) # {}

\* "Playing Balatro"
StrPlayingBalatro ==
    <<"P","l","a","y","i","n","g"," ","B","a","l","a","t","r","o">>

\* C12: the activity update of a tick carries the pid and the name of the game
\* detected on that tick, on a connection whose handshake carried the catalog
\* identifier of that name; for the catalog {balatro -> 1209665818464358430}
\* and the detection ("Balatro", 4321) the handshake has that client_id and the
\* command frame has pid 4321 and details "Playing Balatro".
C12_UpdateCarriesDetection ==
    /\ \A i \in Writes(last, 1) :
         /\ last.ev[i].frame.pid = last.det.pid
         /\ last.ev[i].frame.details = StrPlaying \o last.det.name
         /\ last.ev[i].frame.large_text = last.det.name
         /\ socks[last.ev[i].fd].hsID = resolveClientID(nameToID, last.det.name)
    /\ \A i \in Writes(last, 0) :
         last.ev[i].frame.client_id = resolveClientID(nameToID, last.det.name)
    /\ (last.valid /\ last.det = [name |-> Balatro, pid |-> 4321]) =>
         /\ \A i \in Writes(last, 0) :
              last.ev[i].frame.client_id = "1209665818464358430"
         /\ \A i \in Writes(last, 1) :
              /\ last.ev[i].frame.pid = 4321
              /\ last.ev[i].frame.details = StrPlayingBalatro
              /\ socks[last.ev[i].fd].hsID = "1209665818464358430"

\* C12's case: ("Balatro", 4321) is detected, a handshake and an update are sent.
C12_Witness ==
    /\ last.valid /\ last.det = [name |-> Balatro, pid |-> 4321]
    /\ \E i \in Writes(last, 0) : \E j \in Delivered(last) : i < j

\* C13: a peer that accepts the connection and neither answers the handshake
\* nor closes stalls the tick: no tick finishes under a silent peer, and while
\* the tick is blocked in the read (after the handshake write, before the
\* connection is stored) no tick can run and no activity update is written.
C13_SilentPeerStallsTick ==
    /\ last.valid => last.env.behaviour # "silent"
    /\ pending.active <=> pc = "blocked"
    /\ pc = "blocked" =>
         /\ pending.env.behaviour = "silent"
         /\ ~ ENABLED Tick
         /\ Writes(pending.s, 1) = {}
         /\ Writes(pending.s, 0) = {Len(pending.s.ev)}
         /\ pending.s.ev[Len(pending.s.ev)].ok
         /\ pending.s.ipcConn = Nil

\* C13's case: a game switch on a live connection meets a silent peer.
C13_Witness ==
    /\ pc = "blocked" /\ ipcConn # Nil
    /\ pending.det.name # <<>> /\ Closes(pending.s) # {}

\* C14: for every opcode of the 32-bit signed range and every body, the bytes
\* written are 8 header bytes (the opcode, then the byte length of the body,
\* both little-endian) followed by the body, and reading those bytes back
\* gives a header that holds the same opcode and a payload equal to the body.
C14_FrameRoundTrip ==
    /\ (io.fn = "codec" /\ io.stage \in {"sent", "read"}) =>
         /\ Len(io.wire) = 8 + Len(io.body)
         /\ \A i \in 1..4 : io.wire[i] \in 0..255 /\ io.wire[4 + i] \in 0..255
         /\ Int32(SubSeq(io.wire, 1, 4)) = io.opcode
         /\ Uint32(SubSeq(io.wire, 5, 8)) = Len(io.body)
         /\ SubSeq(io.wire, 9, Len(io.wire)) = io.body
    /\ (io.fn = "codec" /\ io.stage = "read" /\ io.cuts = {}) =>
         /\ ~io.r.err
         /\ Int32(SubSeq(io.r.header, 1, 4)) = io.opcode
         /\ io.r.payload = io.body
         /\ io.r.rest = <<>>

\* C14's case: a frame with a negative opcode and a body longer than 255 bytes
\* has been written and read back.
C14_Witness ==
    /\ io.fn = "codec" /\ io.stage = "read" /\ io.cuts = {}
    /\ io.opcode < 0 /\ Len(io.body) > 255

\* C15: reading a response consumes exactly the 8 header bytes and the body
\* bytes the length field counts, and the body read is the complete body,
\* however the stream delivers the frame's bytes.
C15_ReadConsumesWholeFrame ==
    (io.fn = "codec" /\ io.stage = "read") =>
       /\ ~io.r.err
       /\ StreamLen(io.stream) - StreamLen(io.r.rest) = 8 + Len(io.body)
       /\ io.r.payload = io.body

\* ---- the scanner's contract, stated over the entries of a table
Scanned == io.fn = "scan" /\ io.stage = "scanned"

\* the entry is a directory named by a number
IsProcess(entry) == entry.isDir /\ entry.name[1] \in Range(Digits)

\* the folder names an entry offers: of its executable, then of its arguments
NamesOf(entry) ==
    LET args == IF entry.cmdline.err THEN <<>> ELSE SplitNul(entry.cmdline.data)
        exe == IF entry.exe.err THEN <<>> ELSE <<extractSteamGameName(entry.exe.path)>>
        all == exe \o [i \in DOMAIN args |-> extractSteamGameName(args[i])]
        Named(n) == n # <<>>
    IN SelectSeq(all, Named)

\* the first folder name of the entry outside the ignore set, <<>> if none
CandidateOf(entry, ignored) ==
    LET Free(n) == n \notin ignored
        free == SelectSeq(NamesOf(entry), Free)
    IN IF free = <<>> THEN <<>> ELSE free[1]

\* the positions of the processes that offer a name outside the ignore set
Hits(entries, ignored) ==
    {i \in DOMAIN entries : IsProcess(entries[i]) /\ CandidateOf(entries[i], ignored) # <<>>}

\* C16: the scan never returns a name of the ignore set, whether the name came
\* from the executable path or from an argument; processes that offer only
\* ignored names yield nothing, and the scan goes on to the processes after them.
C16_NeverReturnsIgnored ==
    Scanned =>
      /\ io.out.name \notin io.ignored
      /\ (\A i \in DOMAIN io.proc.entries :
            IsProcess(io.proc.entries[i]) =>
              Range(NamesOf(io.proc.entries[i])) \subseteq io.ignored)
         => io.out = NoGame
      /\ (\E i \in DOMAIN io.proc.entries :
            /\ IsProcess(io.proc.entries[i])
            /\ ~(Range(NamesOf(io.proc.entries[i])) \subseteq io.ignored))
         => io.out # NoGame

\* C16's case: the first process offers only ignored names, through its
\* executable and through an argument, and the second one runs a game.
C16_Witness ==
    /\ Scanned /\ Len(io.proc.entries) = 2
    /\ IsProcess(io.proc.entries[1])
    /\ Len(NamesOf(io.proc.entries[1])) = 2
    /\ Range(NamesOf(io.proc.entries[1])) \subseteq io.ignored
    /\ io.out = [name |-> FolderA, pid |-> PidNumber(2)]

\* C17: the scan returns the first process, in the table's order, that offers
\* a name outside the ignore set (the executable's before the arguments'),
\* with that process's id, and returns none exactly when no process offers one.
C17_FirstMatchWins ==
    Scanned =>
      LET hits == Hits(io.proc.entries, io.ignored) IN
      /\ io.out = NoGame <=> hits = {}
      /\ hits # {} =>
           LET k == CHOOSE i \in hits : \A j \in hits : i <= j IN
           /\ io.out.name = CandidateOf(io.proc.entries[k], io.ignored)
           /\ io.out.pid = PidNumber(k)

\* C17's case: two processes run different games, the first one is returned.
C17_Witness ==
    /\ Scanned /\ Hits(io.proc.entries, io.ignored) = {1, 2}
    /\ CandidateOf(io.proc.entries[1], io.ignored)
         # CandidateOf(io.proc.entries[2], io.ignored)
    /\ io.out.pid = PidNumber(1)

\* the entry with what cannot be read taken as empty
AsEmpty(entry) ==
    [entry EXCEPT !.exe = IF @.err THEN ExeLink(<<>>) ELSE @,
                  !.cmdline = IF @.err THEN Cmdline(<<>>) ELSE @]

\* C18: an executable link or an argument list that cannot be read counts as
\* empty and does not end the scan: a game of a later entry is still found, and
\* an entry whose executable link cannot be read is still checked through its
\* arguments.
C18_UnreadableEntriesSkipped ==
    (Scanned /\ ~io.proc.err) =>
      /\ io.out = scanEntries([i \in DOMAIN io.proc.entries |->
                                 AsEmpty(io.proc.entries[i])], io.ignored)
      /\ \A i \in DOMAIN io.proc.entries :
           LET e == io.proc.entries[i] IN
           ( /\ IsProcess(e) /\ e.exe.err /\ ~e.cmdline.err
             /\ CandidateOf(e, io.ignored) # <<>>
             /\ \A j \in 1..(i - 1) : j \notin Hits(io.proc.entries, io.ignored) )
           => io.out = [name |-> CandidateOf(e, io.ignored), pid |-> PidNumber(i)]

\* C18's case: nothing of the first process can be read, the executable link
\* of the second cannot be read and its arguments hold a game.
C18_Witness ==
    /\ Scanned /\ Len(io.proc.entries) = 2
    /\ IsProcess(io.proc.entries[1])
    /\ io.proc.entries[1].exe.err /\ io.proc.entries[1].cmdline.err
    /\ IsProcess(io.proc.entries[2])
    /\ io.proc.entries[2].exe.err
    /\ io.out = [name |-> FolderB, pid |-> PidNumber(2)]

\* strings.Split(path, "/"): the components of a path, empty ones included
RECURSIVE Components(_)
Components(path) ==
    LET i == Index(path, Separator) IN
    IF i = -1 THEN <<path>>
    ELSE <<SubSeq(path, 1, i)>> \o Components(SliceFrom(path, i + 1))

\* the positions where the components steamapps, common follow each other
SegmentAt(comps) ==
    {i \in 1..(Len(comps) - 1) : comps[i] = StrSteamapps /\ comps[i + 1] = StrCommon}

\* C19: for a path that contains the path segment steamapps/common the
\* extraction gives the component right after that segment (nothing when the
\* path ends there); for a path that does not contain steamapps/common as a
\* path segment it gives the empty string; "/a/steamapps/common/Balatro/balatro.exe"
\* gives "Balatro" and "/no/such/path" gives "".
C19_FolderAfterSegment ==
    (io.fn = "extract" /\ io.stage = "extracted") =>
      LET comps == Components(io.path)
          segs == SegmentAt(comps)
          k == CHOOSE i \in segs : \A j \in segs : i <= j
      IN /\ segs = {} => io.out = <<>>
         /\ segs # {} =>
              io.out = IF k + 2 <= Len(comps) THEN comps[k + 2] ELSE <<>>
         /\ io.path = ExamplePath => io.out = Balatro
         /\ io.path = NoSuchPath => io.out = <<>>

\* the positions of the catalog's entries stored under the key of a name
EntriesFor(apps, name) ==
    {i \in DOMAIN apps : normalizeGameName(apps[i].Name) = normalizeGameName(name)}

\* C20 as stated: resolve(name) is the identifier of every catalog entry
\* inserted under normalize(name), entries with the same key included, and the
\* sentinel when no entry has that key.
C20_ResolveEveryEntry ==
    (io.fn = "catalog" /\ io.stage = "resolved") =>
      /\ \A i \in EntriesFor(io.apps, io.name) : io.out = io.apps[i].ID
      /\ EntriesFor(io.apps, io.name) = {} => io.out = SentinelID

\* C20, amended: resolve(name) is the identifier of the last catalog entry, in
\* catalog order, inserted under normalize(name), and the sentinel when no
\* entry has that key; it is never empty and never the identifier of an entry
\* with another key.
C20_ResolveLastEntry ==
    (io.fn = "catalog" /\ io.stage = "resolved") =>
      LET hits == EntriesFor(io.apps, io.name) IN
      /\ hits = {} => io.out = SentinelID
      /\ hits # {} =>
           io.out = io.apps[CHOOSE i \in hits : \A j \in hits : j <= i].ID
      /\ io.out # ""
      /\ io.out \in {SentinelID} \cup {io.apps[i].ID : i \in hits}

\* C20's case: two entries with the same key and different identifiers, looked
\* up by the name of the first.
C20_Witness ==
    /\ io.fn = "catalog" /\ io.stage = "resolved" /\ Len(io.apps) = 2
    /\ io.apps[1].Name = Balatro /\ io.apps[2].Name = BalatroShout
    /\ io.apps[1].ID # io.apps[2].ID
    /\ io.name = Balatro /\ io.out = io.apps[2].ID

\* the characters a to z and 0 to 9
AlnumLower ==
    {"a","b","c","d","e","f","g","h","i","j","k","l","m","n","o","p","q","r","s",
     "t","u","v","w","x","y","z","0","1","2","3","4","5","6","7","8","9"}

\* C21: the normalization of any string holds only characters of [a-z0-9], and
\* normalizing it again gives the same string.
C21_NormalizeIdempotent ==
    /\ (io.fn = "normalize" /\ io.stage \in {"once", "twice"}) =>
         \A i \in DOMAIN io.out : io.out[i] \in AlnumLower
    /\ (io.fn = "normalize" /\ io.stage = "twice") => io.again = io.out

\* C21's case: a string with an upper-case letter, a character outside ASCII
\* that lower-cases into ASCII, and a character that is stripped, normalized
\* twice.
C21_Witness ==
    /\ io.fn = "normalize" /\ io.stage = "twice"
    /\ io.x = <<"A", KelvinSign, "!">> /\ io.out = <<"a", "k">>

\* C22: when the catalog cannot be obtained at startup the process exits
\* before the loop: the socket is never probed, no tick ever runs (no scan, no
\* connection attempt, no frame), and no tick can run.
C22_NoLoopWithoutCatalog ==
    boot.unavailable =>
      /\ pc = "exited"
      /\ ~boot.probed /\ socketPath = NoPath
      /\ last = NoTick /\ pending = NoPending /\ hist = <<>>
      /\ ipcConn = Nil /\ currentClientID = ""
      /\ \A fd \in Fds : socks[fd] = FreeSock
      /\ nameToID = EmptyMap
      /\ ~ ENABLED Tick
      /\ ~ ENABLED Unblock

\* C22's case: the configuration was read, the catalog could not be obtained,
\* and the process has exited.
C22_Witness ==
    /\ boot.done /\ boot.unavailable /\ pc = "exited"
    /\ Bar \in ignoredGames

\* C23: every opcode-1 frame is written on a connection whose handshake
\* carried the identifier resolved for the game name in the frame, and at the
\* end of every tick that detected a game and is Connected the session's
\* identifier is the one resolved for the game detected on that tick.
C23_UpdateUnderResolvedIdentifier ==
    /\ \A i \in Writes(last, 1) :
         LET e == last.ev[i] IN
         /\ socks[e.fd].hsID = resolveClientID(nameToID, e.frame.large_text)
         /\ e.frame.details = StrPlaying \o e.frame.large_text
    /\ (last.valid /\ GameDetected(last) /\ ipcConn # Nil) =>
         /\ currentClientID = resolveClientID(nameToID, last.det.name)
         /\ socks[ipcConn].hsID = currentClientID

\* C23's case: a switch to a game with another identifier, the update
\* delivered on the new connection.
C23_Witness ==
    /\ last.valid /\ GameDetected(last) /\ ipcConn # Nil
    /\ last.pre.ipcConn # Nil /\ last.pre.currentClientID # currentClientID
    /\ Delivered(last) # {}

\* The tick detects another game than the one the session is connected for,
\* and that game resolves to the session's identifier.
SameIdentifierSwitch(l) ==
    /\ l.valid /\ GameDetected(l)
    /\ l.pre.ipcConn # Nil
    /\ l.prev.valid /\ l.prev.name # <<>> /\ l.prev.name # l.det.name
    /\ l.pre.currentClientID = resolveClientID(nameToID, l.det.name)

\* C24: when the detected game changes to another game that resolves to the
\* identifier of the connection, the connection is kept: the tick closes
\* nothing, dials nothing, writes no handshake, and its only system call is
\* one activity update with the new game's name and pid.
C24_SameIdentifierKeepsConnection ==
    SameIdentifierSwitch(last) =>
      /\ Len(last.ev) = 1
      /\ last.ev[1].kind = "write" /\ last.ev[1].fd = last.pre.ipcConn
      /\ last.ev[1].frame.opcode = 1
      /\ last.ev[1].frame.pid = last.det.pid
      /\ last.ev[1].frame.details = StrPlaying \o last.det.name
      /\ Closes(last) = {} /\ Dials(last) = {} /\ Writes(last, 0) = {}
      /\ ipcConn = last.pre.ipcConn
      /\ currentClientID = last.pre.currentClientID

\* C24's case: from one unknown game to another, both under the sentinel.
C24_Witness ==
    /\ SameIdentifierSwitch(last)
    /\ currentClientID = SentinelID /\ Delivered(last) # {}

\* C24's other case: from one name to another with the same normalized key.
C24_WitnessSameKey ==
    /\ SameIdentifierSwitch(last)
    /\ currentClientID = BalatroID /\ Delivered(last) # {}

====
